---- MODULE Spec2Model ----
(***************************************************************************)
(* Fee estimator of ckb (fee-policy crate): Estimator, TxConfirmStat and   *)
(* FeeRate, as a state machine.                                            *)
(*                                                                         *)
(* f64 values (FeeRate, txs_count, the confirmed / failed matrices) are    *)
(* fixed-point integers with F64_ONE units per 1.0, rounded toward zero.   *)
(* usize counters are kept by their residue: a counter that wrapped below  *)
(* zero in a build without overflow checks holds -1 for usize::MAX.        *)
(* A panic (overflow check, index out of bounds) sets panicked; nothing    *)
(* runs on the engine after it.                                            *)
(***************************************************************************)
EXTENDS Integers, Sequences, FiniteSets, TLC

\* ------------------------------------------------------------------ bounds
\* MAX_CONFIRM_BLOCKS is 1000 and MAX_BUCKET_FEERATE is 1e7 in estimator.rs;
\* the model keeps the code and shrinks the two tables they size: 2 ring rows
\* and the 3 buckets 1000, 1050, 1102.5 (17 buckets, up to 2182.87, in the
\* end-to-end scenario, which needs the bucket of feerate 2000).
MAX_CONFIRM_BLOCKS == 2
MAX_BUCKET_FEERATE == 1110
E2E_MAX_BUCKET_FEERATE == 2200
\* heights the chain reaches, hashes the pool hands out, entries per block
MaxHeight == 3
NumHashes == 2
MaxBlockTxs == 2
\* transactions the engine takes into tracking in one run
MaxTracks == 2

\* ------------------------------------------------------------------ constants
F64_ONE == 1000
DEFAULT_CYCLES_PER_BYTE == 2000
MIN_BUCKET_FEERATE == 1000
FEE_SPACING == [num |-> 105, den |-> 100]
MIN_ESTIMATE_SAMPLES == 20
MIN_ESTIMATE_CONFIRM_RATE == [num |-> 85, den |-> 100]
DEFAULT_DECAY_FACTOR == [num |-> 993, den |-> 1000]

\* Option::None of an Option<usize>
None == -1

Max(a, b) == IF a >= b THEN a ELSE b
saturating_sub(a, b) == IF a >= b THEN a - b ELSE 0

\* x * f for a rational f, rounded toward zero, without leaving 32 bits
MulF64(x, f) == (x \div f.den) * f.num + ((x % f.den) * f.num) \div f.den

\* ------------------------------------------------------------------ FeeRate
\* the f64 that is not a number (every other f64 of the model is >= 0)
F64_NaN == -2

\* f64 addition
f64_add(a, b) == IF a = F64_NaN \/ b = F64_NaN THEN F64_NaN ELSE a + b

\* C22 mutant: no is_nan check
FeeRate_from_f64_unchecked(value) == value

\* FeeRate::from_f64: Option<FeeRate>
FeeRate_from_f64(value) == IF value = F64_NaN THEN None ELSE value

FeeRate_zero == 0

\* FeeRate::add: Option<FeeRate>
FeeRate_add(self, other) == FeeRate_from_f64(f64_add(self, other))

\* ------------------------------------------------------------------ TxEntry
virtual_size(tx) == Max(tx.size, tx.cycles \div DEFAULT_CYCLES_PER_BYTE)

feerate(tx) == (tx.fee * F64_ONE) \div virtual_size(tx)

\* ------------------------------------------------------------------ buckets
\* C21 mutant: each boundary is put in front of the ones before it
RECURSIVE new_buckets_reversed(_, _)
new_buckets_reversed(bucket_fee_boundary, max_bucket_feerate) ==
    IF bucket_fee_boundary <= max_bucket_feerate * F64_ONE
    THEN new_buckets_reversed(MulF64(bucket_fee_boundary, FEE_SPACING), max_bucket_feerate)
         \o <<bucket_fee_boundary>>
    ELSE <<>>

\* Estimator::new: the boundaries MIN_BUCKET_FEERATE * FEE_SPACING^k up to
\* max_bucket_feerate, from bucket_fee_boundary on
RECURSIVE new_buckets(_, _)
new_buckets(bucket_fee_boundary, max_bucket_feerate) ==
    IF bucket_fee_boundary <= max_bucket_feerate * F64_ONE
    THEN <<bucket_fee_boundary>>
         \o new_buckets(MulF64(bucket_fee_boundary, FEE_SPACING), max_bucket_feerate)
    ELSE <<>>

\* bucket indices (0-based, as in the code) and ring rows / confirm targets
BucketIdx(self) == 0 .. (Len(self.feerate_to_bucket) - 1)
RowIdx == 0 .. (MAX_CONFIRM_BLOCKS - 1)

decay_factor == DEFAULT_DECAY_FACTOR

\* ------------------------------------------------------------------ TxConfirmStat
\* The engine as one record `self`: the fields of Estimator, the fields of the
\* TxConfirmStat it owns, the build's overflow-checks setting and panicked.

\* bucket_stats[b] of a new TxConfirmStat: BucketStat::default()
BucketStat_default == [total_feerate |-> 0, txs_count |-> 0, old_unconfirmed_txs |-> 0]

\* C36 mutant: the range starts above the feerate, a boundary equal to it is
\* passed over
bucket_index_by_feerate_above(self, rate) ==
    LET above == {i \in BucketIdx(self) : self.feerate_to_bucket[i + 1] > rate}
    IN IF above = {} THEN None
       ELSE CHOOSE i \in above :
              \A j \in above : self.feerate_to_bucket[i + 1] <= self.feerate_to_bucket[j + 1]

\* C8 mutant: a feerate above every boundary falls into the last bucket
bucket_index_by_feerate_clamped(self, rate) ==
    LET above == {i \in BucketIdx(self) : self.feerate_to_bucket[i + 1] >= rate}
    IN IF above = {} THEN Len(self.feerate_to_bucket) - 1
       ELSE CHOOSE i \in above :
              \A j \in above : self.feerate_to_bucket[i + 1] <= self.feerate_to_bucket[j + 1]

\* TxConfirmStat::bucket_index_by_feerate: feerate_to_bucket.range(feerate..).next()
\* (feerate_to_bucket is kept as the boundaries in key order: the bucket index
\* of the k-th key is k - 1)
bucket_index_by_feerate(self, rate) ==
    LET above == {i \in BucketIdx(self) : self.feerate_to_bucket[i + 1] >= rate}
    IN IF above = {} THEN None
       ELSE CHOOSE i \in above :
              \A j \in above : self.feerate_to_bucket[i + 1] <= self.feerate_to_bucket[j + 1]

\* BucketStat::inc_total_feerate: a sum that is no FeeRate is logged and dropped
inc_total_feerate(stat, rate) ==
    IF FeeRate_add(stat.total_feerate, rate) # None
    THEN [stat EXCEPT !.total_feerate = FeeRate_add(stat.total_feerate, rate)]
    ELSE stat

\* BucketStat::avg_feerate: None when the bucket has no sample
avg_feerate(stat) ==
    IF stat.txs_count # 0
    THEN (stat.total_feerate \div stat.txs_count) * F64_ONE
         + ((stat.total_feerate % stat.txs_count) * F64_ONE) \div stat.txs_count
    ELSE None

\* C27 mutant: only the row of blocks_to_confirm counts the sample
add_confirmed_tx_one_row(self, blocks_to_confirm, rate) ==
    LET bucket_index == bucket_index_by_feerate(self, rate)
    IN IF blocks_to_confirm < 1 THEN self
       ELSE IF bucket_index = None THEN self
       ELSE [self EXCEPT
               !.confirm_target_to_confirmed_txs =
                   [i \in RowIdx |-> [b \in BucketIdx(self) |->
                       IF i = blocks_to_confirm - 1 /\ b = bucket_index
                       THEN @[i][b] + F64_ONE ELSE @[i][b]]],
               !.bucket_stats[bucket_index] =
                   inc_total_feerate([@ EXCEPT !.txs_count = @ + F64_ONE], rate)]

\* C15 mutant: every row of the bucket's column counts the sample
add_confirmed_tx_all_rows(self, blocks_to_confirm, rate) ==
    LET bucket_index == bucket_index_by_feerate(self, rate)
    IN IF blocks_to_confirm < 1 THEN self
       ELSE IF bucket_index = None THEN self
       ELSE [self EXCEPT
               !.confirm_target_to_confirmed_txs =
                   [i \in RowIdx |-> [b \in BucketIdx(self) |->
                       IF b = bucket_index THEN @[i][b] + F64_ONE ELSE @[i][b]]],
               !.bucket_stats[bucket_index].txs_count = @ + F64_ONE,
               !.bucket_stats[bucket_index].total_feerate = @ + rate]

\* C16 mutant: no check of blocks_to_confirm
add_confirmed_tx_unchecked(self, blocks_to_confirm, rate) ==
    LET bucket_index == bucket_index_by_feerate(self, rate)
    IN IF bucket_index = None THEN self
       ELSE [self EXCEPT
               !.confirm_target_to_confirmed_txs =
                   [i \in RowIdx |-> [b \in BucketIdx(self) |->
                       IF i >= blocks_to_confirm - 1 /\ b = bucket_index
                       THEN @[i][b] + F64_ONE ELSE @[i][b]]],
               !.bucket_stats[bucket_index].txs_count = @ + F64_ONE,
               !.bucket_stats[bucket_index].total_feerate = @ + rate]

\* C9 mutant: the confirmed rows start at blocks_to_confirm, not one below
add_confirmed_tx_from_target(self, blocks_to_confirm, rate) ==
    LET bucket_index == bucket_index_by_feerate(self, rate)
    IN IF blocks_to_confirm < 1 THEN self
       ELSE IF bucket_index = None THEN self
       ELSE [self EXCEPT
               !.confirm_target_to_confirmed_txs =
                   [i \in RowIdx |-> [b \in BucketIdx(self) |->
                       IF i >= blocks_to_confirm /\ b = bucket_index
                       THEN @[i][b] + F64_ONE ELSE @[i][b]]],
               !.bucket_stats[bucket_index].txs_count = @ + F64_ONE,
               !.bucket_stats[bucket_index].total_feerate = @ + rate]

\* TxConfirmStat::add_confirmed_tx
add_confirmed_tx(self, blocks_to_confirm, rate) ==
    LET bucket_index == bucket_index_by_feerate(self, rate)
    IN IF blocks_to_confirm < 1 THEN self
       ELSE IF bucket_index = None THEN self
       ELSE [self EXCEPT
               !.confirm_target_to_confirmed_txs =
                   [i \in RowIdx |-> [b \in BucketIdx(self) |->
                       IF i >= blocks_to_confirm - 1 /\ b = bucket_index
                       THEN @[i][b] + F64_ONE ELSE @[i][b]]],
               !.bucket_stats[bucket_index] =
                   inc_total_feerate([@ EXCEPT !.txs_count = @ + F64_ONE], rate)]

\* TxConfirmStat::add_unconfirmed_tx: the engine after it and the returned Option
add_unconfirmed_tx(self, entry_height, rate) ==
    LET bucket_index == bucket_index_by_feerate(self, rate)
        block_index == entry_height % MAX_CONFIRM_BLOCKS
    IN IF bucket_index = None THEN [self |-> self, ret |-> None]
       ELSE [self |-> [self EXCEPT !.block_unconfirmed_txs[block_index][bucket_index] = @ + 1],
             ret |-> bucket_index]

\* TxConfirmStat::remove_unconfirmed_tx
remove_unconfirmed_tx(self, entry_height, tip_height, bucket_index, count_failure) ==
    LET tx_age == saturating_sub(tip_height, entry_height)
        block_index == entry_height % MAX_CONFIRM_BLOCKS
        old == tx_age >= MAX_CONFIRM_BLOCKS
        \* `-= 1` on a usize that holds 0
        underflow == IF old THEN self.bucket_stats[bucket_index].old_unconfirmed_txs = 0
                     ELSE self.block_unconfirmed_txs[block_index][bucket_index] = 0
        removed == IF old
                   THEN [self EXCEPT !.bucket_stats[bucket_index].old_unconfirmed_txs = @ - 1]
                   ELSE [self EXCEPT !.block_unconfirmed_txs[block_index][bucket_index] = @ - 1]
    IN IF tx_age < 1 THEN self
       ELSE IF underflow /\ self.overflow_checks THEN [self EXCEPT !.panicked = TRUE]
       ELSE IF ~count_failure THEN removed
       \* confirm_target_to_failed_txs[tx_age - 1]: index out of bounds
       ELSE IF tx_age - 1 >= MAX_CONFIRM_BLOCKS THEN [removed EXCEPT !.panicked = TRUE]
       ELSE [removed EXCEPT !.confirm_target_to_failed_txs[tx_age - 1][bucket_index] = @ + F64_ONE]

\* C25 mutant: the row is added to old_unconfirmed_txs and not zeroed
move_track_window_keep_row(self, height) ==
    LET block_index == height % MAX_CONFIRM_BLOCKS
    IN [self EXCEPT
          !.bucket_stats = [b \in BucketIdx(self) |->
              [@[b] EXCEPT !.old_unconfirmed_txs =
                  @ + self.block_unconfirmed_txs[block_index][b]]]]

\* TxConfirmStat::move_track_window
move_track_window(self, height) ==
    LET block_index == height % MAX_CONFIRM_BLOCKS
    IN [self EXCEPT
          !.bucket_stats = [b \in BucketIdx(self) |->
              [@[b] EXCEPT !.old_unconfirmed_txs =
                  @ + self.block_unconfirmed_txs[block_index][b]]],
          !.block_unconfirmed_txs[block_index] = [b \in BucketIdx(self) |-> 0]]

\* C26 mutant: old_unconfirmed_txs is decayed with the rest
decay_with_old(self) ==
    [self EXCEPT
        !.confirm_target_to_confirmed_txs =
            [i \in RowIdx |-> [b \in BucketIdx(self) |-> MulF64(@[i][b], decay_factor)]],
        !.confirm_target_to_failed_txs =
            [i \in RowIdx |-> [b \in BucketIdx(self) |-> MulF64(@[i][b], decay_factor)]],
        !.bucket_stats = [b \in BucketIdx(self) |->
            [@[b] EXCEPT !.total_feerate = MulF64(@, decay_factor),
                         !.txs_count = MulF64(@, decay_factor),
                         !.old_unconfirmed_txs = MulF64(@, decay_factor)]]]

\* C19 mutant: decay takes 1 - decay_factor of one sample off every counter
decay_linear(self) ==
    LET off == F64_ONE - MulF64(F64_ONE, decay_factor)
    IN [self EXCEPT
        !.confirm_target_to_confirmed_txs =
            [i \in RowIdx |-> [b \in BucketIdx(self) |-> @[i][b] - off]],
        !.confirm_target_to_failed_txs =
            [i \in RowIdx |-> [b \in BucketIdx(self) |-> @[i][b] - off]],
        !.bucket_stats = [b \in BucketIdx(self) |->
            [@[b] EXCEPT !.total_feerate = @ - off, !.txs_count = @ - off]]]

\* C38 mutant: the confirmed matrix is left out of the decay
decay_without_confirmed(self) ==
    [self EXCEPT
        !.confirm_target_to_failed_txs =
            [i \in RowIdx |-> [b \in BucketIdx(self) |-> MulF64(@[i][b], decay_factor)]],
        !.bucket_stats = [b \in BucketIdx(self) |->
            [@[b] EXCEPT !.total_feerate = MulF64(@, decay_factor),
                         !.txs_count = MulF64(@, decay_factor)]]]

\* C18 mutant: the failed matrix is left out of the decay
decay_without_failed(self) ==
    [self EXCEPT
        !.confirm_target_to_confirmed_txs =
            [i \in RowIdx |-> [b \in BucketIdx(self) |-> MulF64(@[i][b], decay_factor)]],
        !.bucket_stats = [b \in BucketIdx(self) |->
            [@[b] EXCEPT !.total_feerate = MulF64(@, decay_factor),
                         !.txs_count = MulF64(@, decay_factor)]]]

\* TxConfirmStat::decay
decay(self) ==
    [self EXCEPT
        !.confirm_target_to_confirmed_txs =
            [i \in RowIdx |-> [b \in BucketIdx(self) |-> MulF64(@[i][b], decay_factor)]],
        !.confirm_target_to_failed_txs =
            [i \in RowIdx |-> [b \in BucketIdx(self) |-> MulF64(@[i][b], decay_factor)]],
        !.bucket_stats = [b \in BucketIdx(self) |->
            [@[b] EXCEPT !.total_feerate = MulF64(@, decay_factor),
                         !.txs_count = MulF64(@, decay_factor)]]]

\* `extra_count as f64` in F64_ONE units; a wrapped usize is about 1.8e19
\* confirmed_percent > confirm_rate, for confirmed / (txs + failure + extra)
confirmed_percent_gt(confirmed_txs, txs_count, failure_count, extra_count, confirm_rate) ==
    IF extra_count < 0
    THEN confirm_rate.num < 0 \/ (confirm_rate.num = 0 /\ confirmed_txs > 0)
    ELSE confirmed_txs * confirm_rate.den
           > confirm_rate.num * (txs_count + failure_count + extra_count * F64_ONE)

\* the scan of estimate_median from bucket_index on, with the accumulators so
\* far: the bucket the loop breaks at, or None when it runs to the end
RECURSIVE scan_buckets(_, _, _, _, _, _, _, _, _)
scan_buckets(self, confirm_target, required_samples, confirm_rate, bucket_index, confirmed_txs0, txs_count0, failure_count0, extra_count0) ==
    IF bucket_index >= Len(self.feerate_to_bucket) THEN None
    ELSE LET confirmed_txs == confirmed_txs0
                 + self.confirm_target_to_confirmed_txs[confirm_target - 1][bucket_index]
             failure_count == failure_count0
                 + self.confirm_target_to_failed_txs[confirm_target - 1][bucket_index]
             extra_count == extra_count0
                 + self.block_unconfirmed_txs[confirm_target - 1][bucket_index]
             txs_count == txs_count0 + self.bucket_stats[bucket_index].txs_count
         IN IF txs_count > required_samples * F64_ONE
               /\ confirmed_percent_gt(confirmed_txs, txs_count, failure_count,
                                       extra_count, confirm_rate)
            THEN bucket_index
            ELSE scan_buckets(self, confirm_target, required_samples, confirm_rate,
                              bucket_index + 1, confirmed_txs, txs_count,
                              failure_count, extra_count)

\* the median loop of estimate_median over [bucket_index, best_bucket_end];
\* twice_half is 2 * half_count
\* C32 mutant: a bucket holding exactly the half left is passed over
RECURSIVE find_median_strict(_, _, _, _)
find_median_strict(self, bucket_index, best_bucket_end, twice_half) ==
    IF bucket_index > best_bucket_end THEN FeeRate_zero
    ELSE LET bucket == self.bucket_stats[bucket_index]
         IN IF 2 * bucket.txs_count > twice_half
            THEN (IF avg_feerate(bucket) = None THEN FeeRate_zero ELSE avg_feerate(bucket))
            ELSE find_median_strict(self, bucket_index + 1, best_bucket_end,
                                    twice_half - 2 * bucket.txs_count)

RECURSIVE find_median(_, _, _, _)
find_median(self, bucket_index, best_bucket_end, twice_half) ==
    IF bucket_index > best_bucket_end THEN FeeRate_zero
    ELSE LET bucket == self.bucket_stats[bucket_index]
         IN IF 2 * bucket.txs_count >= twice_half
            THEN (IF avg_feerate(bucket) = None THEN FeeRate_zero ELSE avg_feerate(bucket))
            ELSE find_median(self, bucket_index + 1, best_bucket_end,
                             twice_half - 2 * bucket.txs_count)

RECURSIVE sum_txs_count(_, _, _)
sum_txs_count(self, from, to) ==
    IF from > to THEN 0
    ELSE self.bucket_stats[from].txs_count + sum_txs_count(self, from + 1, to)

\* C31 mutant: a scan without a break yields zero, whatever bucket 0 holds
estimate_median_no_fallback(self, confirm_target, required_samples, confirm_rate) ==
    IF confirm_target < 1 THEN [ret |-> FeeRate_zero, panicked |-> FALSE]
    ELSE IF confirm_target - 1 >= MAX_CONFIRM_BLOCKS /\ Len(self.feerate_to_bucket) > 0
    THEN [ret |-> None, panicked |-> TRUE]
    ELSE LET found == scan_buckets(self, confirm_target, required_samples, confirm_rate,
                                   0, 0, 0, 0, 0)
             best_range_txs_count == sum_txs_count(self, 0, found)
         IN [ret |-> IF found # None /\ best_range_txs_count # 0
                     THEN find_median(self, 0, found, best_range_txs_count)
                     ELSE FeeRate_zero,
             panicked |-> FALSE]

\* TxConfirmStat::estimate_median: [ret, panicked]
estimate_median(self, confirm_target, required_samples, confirm_rate) ==
    IF confirm_target < 1 THEN [ret |-> FeeRate_zero, panicked |-> FALSE]
    \* confirm_target_to_confirmed_txs[confirm_target - 1]: index out of bounds
    ELSE IF confirm_target - 1 >= MAX_CONFIRM_BLOCKS /\ Len(self.feerate_to_bucket) > 0
    THEN [ret |-> None, panicked |-> TRUE]
    ELSE LET found == scan_buckets(self, confirm_target, required_samples, confirm_rate,
                                   0, 0, 0, 0, 0)
             best_bucket_start == 0
             best_bucket_end == IF found = None THEN 0 ELSE found
             best_range_txs_count == sum_txs_count(self, best_bucket_start, best_bucket_end)
         IN [ret |-> IF best_range_txs_count # 0
                     THEN find_median(self, best_bucket_start, best_bucket_end,
                                      best_range_txs_count)
                     ELSE FeeRate_zero,
             panicked |-> FALSE]

\* ------------------------------------------------------------------ Estimator
\* Estimator::new, with TxConfirmStat::new inlined
Estimator_new(max_bucket_feerate, overflow_checks) ==
    LET buckets == new_buckets(MIN_BUCKET_FEERATE * F64_ONE, max_bucket_feerate)
        idx == 0 .. (Len(buckets) - 1)
    IN [best_height |-> 0,
        first_record_height |-> 0,
        tracked_txs |-> <<>>,
        bucket_stats |-> [b \in idx |-> BucketStat_default],
        feerate_to_bucket |-> buckets,
        confirm_target_to_confirmed_txs |-> [i \in RowIdx |-> [b \in idx |-> 0]],
        confirm_target_to_failed_txs |-> [i \in RowIdx |-> [b \in idx |-> 0]],
        block_unconfirmed_txs |-> [i \in RowIdx |-> [b \in idx |-> 0]],
        overflow_checks |-> overflow_checks,
        panicked |-> FALSE]

\* FnvHashMap::remove / insert on tracked_txs
map_remove(m, k) == [h \in (DOMAIN m) \ {k} |-> m[h]]
map_insert(m, k, v) == [h \in (DOMAIN m) \cup {k} |-> IF h = k THEN v ELSE m[h]]

\* C14 mutant: the entry is looked up, not removed
drop_tx_inner_get(self, tx_hash, count_failure) ==
    IF tx_hash \in DOMAIN self.tracked_txs
    THEN [self |-> remove_unconfirmed_tx(self,
                       self.tracked_txs[tx_hash].height, self.best_height,
                       self.tracked_txs[tx_hash].bucket_index, count_failure),
          ret |-> TRUE]
    ELSE [self |-> self, ret |-> FALSE]

\* Estimator::drop_tx_inner: [self, ret]
drop_tx_inner(self, tx_hash, count_failure) ==
    IF tx_hash \in DOMAIN self.tracked_txs
    THEN LET tx_entry == self.tracked_txs[tx_hash]
             removed == [self EXCEPT !.tracked_txs = map_remove(@, tx_hash)]
         IN [self |-> remove_unconfirmed_tx(removed, tx_entry.height, self.best_height,
                                            tx_entry.bucket_index, count_failure),
             ret |-> TRUE]
    ELSE [self |-> self, ret |-> FALSE]

\* Estimator::drop_tx
drop_tx(self, tx_hash) == drop_tx_inner(self, tx_hash, TRUE)

\* C35 mutant: a listed transaction counts whether it was tracked or not
process_block_tx_untracked(self, height, tx) ==
    LET dropped == drop_tx_inner(self, tx.hash, FALSE)
        blocks_to_confirm == saturating_sub(height, tx.height)
    IN IF dropped.self.panicked THEN [self |-> dropped.self, ret |-> FALSE]
       ELSE [self |-> add_confirmed_tx(dropped.self, blocks_to_confirm, feerate(tx)),
             ret |-> TRUE]

\* Estimator::process_block_tx: [self, ret]
process_block_tx(self, height, tx) ==
    LET dropped == drop_tx_inner(self, tx.hash, FALSE)
        blocks_to_confirm == saturating_sub(height, tx.height)
    IN IF ~dropped.ret \/ dropped.self.panicked THEN [self |-> dropped.self, ret |-> FALSE]
       ELSE [self |-> add_confirmed_tx(dropped.self, blocks_to_confirm, feerate(tx)),
             ret |-> TRUE]

\* txs.iter().filter(|tx| self.process_block_tx(height, tx)).count(), from
\* txs[i] on: [self, count]
RECURSIVE process_block_txs(_, _, _, _)
process_block_txs(self, height, txs, i) ==
    IF i > Len(txs) \/ self.panicked THEN [self |-> self, count |-> 0]
    ELSE LET one == process_block_tx(self, height, txs[i])
             rest == process_block_txs(one.self, height, txs, i + 1)
         IN [self |-> rest.self, count |-> rest.count + (IF one.ret THEN 1 ELSE 0)]

\* C23 mutant: the listed transactions are resolved before the decay
process_block_decay_last(self, height, txs) ==
    IF height <= self.best_height THEN self
    ELSE LET moved == move_track_window([self EXCEPT !.best_height = height], height)
             done == process_block_txs(moved, height, txs, 1)
             aged == decay(done.self)
         IN IF ~aged.panicked /\ aged.first_record_height = 0 /\ done.count > 0
            THEN [aged EXCEPT !.first_record_height = aged.best_height]
            ELSE aged

\* C34 mutant: every block that resolves a transaction records its height
process_block_record_last(self, height, txs) ==
    IF height <= self.best_height THEN self
    ELSE LET moved == decay(move_track_window([self EXCEPT !.best_height = height], height))
             done == process_block_txs(moved, height, txs, 1)
         IN IF ~done.self.panicked /\ done.count > 0
            THEN [done.self EXCEPT !.first_record_height = done.self.best_height]
            ELSE done.self

\* C4 mutant: a block at the tip's own height is processed again
process_block_at_tip(self, height, txs) ==
    IF height < self.best_height THEN self
    ELSE LET moved == decay(move_track_window([self EXCEPT !.best_height = height], height))
             done == process_block_txs(moved, height, txs, 1)
         IN IF ~done.self.panicked /\ done.self.first_record_height = 0 /\ done.count > 0
            THEN [done.self EXCEPT !.first_record_height = done.self.best_height]
            ELSE done.self

\* C5 mutant: no check of the height against best_height
process_block_unguarded(self, height, txs) ==
    LET moved == decay(move_track_window([self EXCEPT !.best_height = height], height))
        done == process_block_txs(moved, height, txs, 1)
    IN IF ~done.self.panicked /\ done.self.first_record_height = 0 /\ done.count > 0
       THEN [done.self EXCEPT !.first_record_height = done.self.best_height]
       ELSE done.self

\* Estimator::process_block
process_block(self, height, txs) ==
    IF height <= self.best_height THEN self
    ELSE LET moved == decay(move_track_window([self EXCEPT !.best_height = height], height))
             done == process_block_txs(moved, height, txs, 1)
         IN IF ~done.self.panicked /\ done.self.first_record_height = 0 /\ done.count > 0
            THEN [done.self EXCEPT !.first_record_height = done.self.best_height]
            ELSE done.self

\* C6 mutant: no contains_key check
track_tx_again(self, tx) ==
    IF tx.height # self.best_height THEN self
    ELSE LET added == add_unconfirmed_tx(self, tx.height, feerate(tx))
         IN IF added.ret # None
            THEN [added.self EXCEPT !.tracked_txs =
                     map_insert(@, tx.hash, [height |-> tx.height, bucket_index |-> added.ret])]
            ELSE added.self

\* C7 mutant: no check of the entry height against best_height
track_tx_any_height(self, tx) ==
    IF tx.hash \in DOMAIN self.tracked_txs THEN self
    ELSE LET added == add_unconfirmed_tx(self, tx.height, feerate(tx))
         IN IF added.ret # None
            THEN [added.self EXCEPT !.tracked_txs =
                     map_insert(@, tx.hash, [height |-> tx.height, bucket_index |-> added.ret])]
            ELSE added.self

\* Estimator::track_tx
track_tx(self, tx) ==
    IF tx.hash \in DOMAIN self.tracked_txs THEN self
    ELSE IF tx.height # self.best_height THEN self
    ELSE LET added == add_unconfirmed_tx(self, tx.height, feerate(tx))
         IN IF added.ret # None
            THEN [added.self EXCEPT !.tracked_txs =
                     map_insert(@, tx.hash, [height |-> tx.height, bucket_index |-> added.ret])]
            ELSE added.self

\* C11 mutant: the lowest bucket boundary stands in for "no estimate"
estimate_floor(self, confirm_target) ==
    LET r == estimate_median(self, confirm_target, MIN_ESTIMATE_SAMPLES, MIN_ESTIMATE_CONFIRM_RATE)
    IN [r EXCEPT !.ret = IF @ = FeeRate_zero THEN self.feerate_to_bucket[1] ELSE @]

\* Estimator::estimate: [ret, panicked]
estimate(self, confirm_target) ==
    estimate_median(self, confirm_target, MIN_ESTIMATE_SAMPLES, MIN_ESTIMATE_CONFIRM_RATE)

\* ------------------------------------------------------------------ state
VARIABLES
    best_height, first_record_height, tracked_txs,           \* Estimator
    bucket_stats, feerate_to_bucket,                         \* TxConfirmStat
    confirm_target_to_confirmed_txs, confirm_target_to_failed_txs,
    block_unconfirmed_txs,
    overflow_checks,  \* the build: TRUE panics on integer overflow, FALSE wraps
    panicked,         \* a call on the engine has panicked
    tracks,           \* the transactions taken into tracking so far
    last              \* the call that led to this state, its arguments and result

engine == <<best_height, first_record_height, tracked_txs, bucket_stats,
            feerate_to_bucket, confirm_target_to_confirmed_txs,
            confirm_target_to_failed_txs, block_unconfirmed_txs>>
vars == <<engine, overflow_checks, panicked, tracks, last>>

Self ==
    [best_height |-> best_height,
     first_record_height |-> first_record_height,
     tracked_txs |-> tracked_txs,
     bucket_stats |-> bucket_stats,
     feerate_to_bucket |-> feerate_to_bucket,
     confirm_target_to_confirmed_txs |-> confirm_target_to_confirmed_txs,
     confirm_target_to_failed_txs |-> confirm_target_to_failed_txs,
     block_unconfirmed_txs |-> block_unconfirmed_txs,
     overflow_checks |-> overflow_checks,
     panicked |-> panicked]

Is(self) ==
    /\ best_height = self.best_height
    /\ first_record_height = self.first_record_height
    /\ tracked_txs = self.tracked_txs
    /\ bucket_stats = self.bucket_stats
    /\ feerate_to_bucket = self.feerate_to_bucket
    /\ confirm_target_to_confirmed_txs = self.confirm_target_to_confirmed_txs
    /\ confirm_target_to_failed_txs = self.confirm_target_to_failed_txs
    /\ block_unconfirmed_txs = self.block_unconfirmed_txs
    /\ overflow_checks = self.overflow_checks
    /\ panicked = self.panicked

Becomes(self) ==
    /\ best_height' = self.best_height
    /\ first_record_height' = self.first_record_height
    /\ tracked_txs' = self.tracked_txs
    /\ bucket_stats' = self.bucket_stats
    /\ feerate_to_bucket' = self.feerate_to_bucket
    /\ confirm_target_to_confirmed_txs' = self.confirm_target_to_confirmed_txs
    /\ confirm_target_to_failed_txs' = self.confirm_target_to_failed_txs
    /\ block_unconfirmed_txs' = self.block_unconfirmed_txs
    /\ overflow_checks' = self.overflow_checks
    /\ panicked' = self.panicked

\* ------------------------------------------------------------------ inputs
Hashes == 1 .. NumHashes
Heights == 0 .. MaxHeight

\* fee, size and cycles of the entries the pool hands in: feerate 1000 (the
\* first boundary), 1050 (the second boundary, 2100 over a virtual size of 2
\* that the cycles set) and 5000 (above every boundary)
Shapes ==
    { [fee |-> 1000, size |-> 1, cycles |-> 0],
      [fee |-> 2100, size |-> 1, cycles |-> 4000],
      [fee |-> 5000, size |-> 1, cycles |-> 0] }

TxEntry(hash, height, shape) ==
    [hash |-> hash, height |-> height,
     cycles |-> shape.cycles, fee |-> shape.fee, size |-> shape.size]

\* every entry of the bounded pool
AllTxEntries == {TxEntry(h, e, s) : h \in Hashes, e \in Heights, s \in Shapes}

\* entries handed to track_tx: at the tip, any shape for a hash the engine does
\* not track and one shape for a hash it tracks; one block below and one block
\* above the tip, one entry
TxEntries ==
    {tx \in AllTxEntries :
        \/ tx.height = best_height /\ (tx.hash \notin DOMAIN tracked_txs \/ tx.fee = 1000)
        \/ tx.height \in {best_height - 1, best_height + 1} /\ tx.hash = 1 /\ tx.fee = 1000}

\* the entry the pool holds for a hash the engine tracks: the pool lists in a
\* block the entry it handed to track_tx (PoolShape gives back its fee, size
\* and cycles from the bucket); a hash the engine does not track is listed
\* with an entry of the block's height
PoolShape(bucket_index) ==
    CHOOSE s \in Shapes : bucket_index_by_feerate(Self, feerate(TxEntry(0, 0, s))) = bucket_index

PoolEntry(h, height) ==
    IF h \in DOMAIN tracked_txs
    THEN TxEntry(h, tracked_txs[h].height, PoolShape(tracked_txs[h].bucket_index))
    ELSE TxEntry(h, height, PoolShape(0))

BlockEntries(height) == {PoolEntry(h, height) : h \in Hashes}

\* a block above the tip lists up to MaxBlockTxs entries, a stale one up to one
Blocks(height) ==
    UNION {[1 .. n -> BlockEntries(height)] :
             n \in 0 .. (IF height > best_height THEN MaxBlockTxs ELSE 1)}

\* blocks arrive at any height above the tip, at the tip and one below it
BlockHeights == Heights \cap ((best_height - 1) .. MaxHeight)

ConfirmTargets == 0 .. (MAX_CONFIRM_BLOCKS + 1)

\* ------------------------------------------------------------------ actions
Init ==
    /\ overflow_checks \in BOOLEAN
    /\ Is(Estimator_new(MAX_BUCKET_FEERATE, overflow_checks))
    /\ tracks = 0
    /\ last = [op |-> "new"]

TrackTx ==
    /\ ~panicked
    /\ \E tx \in TxEntries :
         \E r \in {track_tx(Self, tx)} :
            /\ r.tracked_txs # tracked_txs => tracks < MaxTracks
            /\ Becomes(r)
            /\ tracks' = IF r.tracked_txs # tracked_txs THEN tracks + 1 ELSE tracks
            /\ last' = [op |-> "track_tx", tx |-> tx]

ProcessBlock ==
    /\ ~panicked
    /\ tracks' = tracks
    /\ \E height \in BlockHeights :
         \E txs \in Blocks(height) :
            /\ \E r \in {process_block(Self, height, txs)} : Becomes(r)
            /\ last' = [op |-> "process_block", height |-> height, txs |-> txs]

DropTx ==
    /\ ~panicked
    /\ tracks' = tracks
    /\ \E tx_hash \in Hashes :
         \E r \in {drop_tx(Self, tx_hash)} :
            /\ Becomes(r.self)
            /\ last' = [op |-> "drop_tx", tx_hash |-> tx_hash, ret |-> r.ret]

\* C20 mutant: estimate ages the statistics before it reads them
EstimateAfterDecay ==
    /\ ~panicked
    /\ tracks' = tracks
    /\ \E confirm_target \in ConfirmTargets :
         \E r \in {estimate(decay(Self), confirm_target)} :
            /\ Becomes([decay(Self) EXCEPT !.panicked = r.panicked])
            /\ last' = [op |-> "estimate", confirm_target |-> confirm_target, ret |-> r.ret]

Estimate ==
    /\ ~panicked
    /\ tracks' = tracks
    /\ \E confirm_target \in ConfirmTargets :
         \E r \in {estimate(Self, confirm_target)} :
            /\ Becomes([Self EXCEPT !.panicked = r.panicked])
            /\ last' = [op |-> "estimate", confirm_target |-> confirm_target, ret |-> r.ret]

Next == TrackTx \/ ProcessBlock \/ DropTx \/ Estimate

Spec == Init /\ [][Next]_vars

\* ------------------------------------------------------------------ end to end
\* The scenario of a test driver on a new engine: optionally process_block(10, [])
\* first, then track_tx of the entries 1, 2, ... in turn, all with height 10 and
\* a feerate in the bucket of 2000, then process_block(12, the entries handed
\* in so far), then estimate.
E2ETxs == 25

\* feerates 1990, 2000 and 2050, by hash
E2EEntry(hash) ==
    [hash |-> hash, height |-> 10, cycles |-> 0, size |-> 1,
     fee |-> IF hash % 3 = 0 THEN 1990 ELSE IF hash % 3 = 1 THEN 2000 ELSE 2050]

E2EEntries(n) == [i \in 1 .. n |-> E2EEntry(i)]

\* the entries handed to track_tx so far
E2EHandedIn == IF last.op = "track_tx" THEN last.tx.hash ELSE 0

E2EInit ==
    /\ overflow_checks \in BOOLEAN
    /\ Is(Estimator_new(E2E_MAX_BUCKET_FEERATE, overflow_checks))
    /\ tracks = 0
    /\ last = [op |-> "new"]

E2EBlock10 ==
    /\ last.op = "new"
    /\ Becomes(process_block(Self, 10, <<>>))
    /\ tracks' = tracks
    /\ last' = [op |-> "process_block", height |-> 10, txs |-> <<>>]

E2ETrackTx ==
    /\ last.op \in {"new", "process_block", "track_tx"}
    /\ best_height < 12
    /\ E2EHandedIn < E2ETxs
    /\ \E r \in {track_tx(Self, E2EEntry(E2EHandedIn + 1))} :
         /\ Becomes(r)
         /\ tracks' = IF r.tracked_txs # tracked_txs THEN tracks + 1 ELSE tracks
         /\ last' = [op |-> "track_tx", tx |-> E2EEntry(E2EHandedIn + 1)]

E2EBlock12 ==
    /\ last.op = "track_tx"
    /\ Becomes(process_block(Self, 12, E2EEntries(E2EHandedIn)))
    /\ tracks' = tracks
    /\ last' = [op |-> "process_block", height |-> 12, txs |-> E2EEntries(E2EHandedIn)]

E2EEstimate ==
    /\ last.op = "process_block" /\ last.height = 12
    /\ ~panicked
    /\ tracks' = tracks
    /\ \E confirm_target \in ConfirmTargets :
         \E r \in {estimate(Self, confirm_target)} :
            /\ Becomes([Self EXCEPT !.panicked = r.panicked])
            /\ last' = [op |-> "estimate", confirm_target |-> confirm_target, ret |-> r.ret]

E2ENext == E2EBlock10 \/ E2ETrackTx \/ E2EBlock12 \/ E2EEstimate

E2ESpec == E2EInit /\ [][E2ENext]_vars

\* ------------------------------------------------------------------ claims
\* what the formulas quantify over: the blocks the pool can hand in at a height
\* (fresh or stale), the hashes, every entry of the bounded pool
AnyBlocks(height) == UNION {[1 .. n -> BlockEntries(height)] : n \in 0 .. MaxBlockTxs}

RECURSIVE SumOver(_, _)
SumOver(f, S) ==
    IF S = {} THEN 0
    ELSE LET x == CHOOSE x \in S : TRUE IN f[x] + SumOver(f, S \ {x})

\* sum over the ring rows of block_unconfirmed_txs[..][b]
RingCount(b) == SumOver([i \in RowIdx |-> block_unconfirmed_txs[i][b]], RowIdx)

TrackedIn(b) == {h \in DOMAIN tracked_txs : tracked_txs[h].bucket_index = b}

\* C1: in every state reachable by track_tx, process_block and drop_tx calls,
\* for every bucket b the ring rows of b plus old_unconfirmed_txs[b] count the
\* tracked transactions of bucket b.
C1_UnconfirmedCountsTracked ==
    ~panicked =>
        \A b \in BucketIdx(Self) :
            RingCount(b) + bucket_stats[b].old_unconfirmed_txs = Cardinality(TrackedIn(b))

\* the hashes a block lists that the engine tracks in bucket b
ListedTracked(txs, b) == {txs[i].hash : i \in 1 .. Len(txs)} \cap TrackedIn(b)

\* C2: a process_block above the tip that lists tracked transactions (each
\* with the entry handed to track_tx, so at height = entry height + K, K >= 1)
\* resolves each exactly once, also when it lists one twice: one sample per
\* transaction on top of the decayed txs_count of its bucket, none left in the
\* tracked set; the same call again changes nothing.
C2_BlockResolvesOnce ==
    ~panicked =>
        \A height \in Heights : \A txs \in AnyBlocks(height) :
            height > best_height =>
                \E r \in {process_block(Self, height, txs)} :
                    /\ ~r.panicked
                    /\ \A i \in 1 .. Len(txs) : txs[i].hash \notin DOMAIN r.tracked_txs
                    /\ \A b \in BucketIdx(Self) :
                          r.bucket_stats[b].txs_count =
                              decay(Self).bucket_stats[b].txs_count
                              + F64_ONE * Cardinality(ListedTracked(txs, b))
                    /\ process_block(r, height, txs) = r

\* C3: drop_tx of a tracked transaction returns true and removes it, whatever
\* its age; drop_tx of the same hash again returns false and changes nothing.
C3_DropTrackedReturnsTrue ==
    ~panicked =>
        \A tx_hash \in DOMAIN tracked_txs :
            \E r \in {drop_tx(Self, tx_hash)} :
                /\ ~r.self.panicked
                /\ r.ret = TRUE
                /\ tx_hash \notin DOMAIN r.self.tracked_txs
                /\ drop_tx(r.self, tx_hash) = [self |-> r.self, ret |-> FALSE]

\* C4: process_block(height, txs) with height <= best_height changes nothing:
\* heights, tracked map (listed transactions stay tracked), ring buffer,
\* old_unconfirmed_txs, confirmed / failed / per-bucket counters.
C4_StaleBlockNoEffect ==
    \A height \in Heights : \A txs \in AnyBlocks(height) :
        height <= best_height => process_block(Self, height, txs) = Self

C4_Witness ==
    /\ last.op = "process_block"
    /\ last.height <= best_height
    /\ \E i \in 1 .. Len(last.txs) : last.txs[i].hash \in DOMAIN tracked_txs
    /\ \E b \in BucketIdx(Self) : bucket_stats[b].txs_count > 0

\* C5: best_height never decreases; only process_block changes it, and only to
\* a strictly larger value (track_tx, drop_tx and estimate leave it alone).
C5_BestHeightMonotone ==
    [][/\ best_height' >= best_height
       /\ best_height' # best_height =>
             last'.op = "process_block" /\ best_height' = last'.height]_vars

C5_Witness ==
    /\ last.op = "process_block"
    /\ last.height = best_height
    /\ best_height = MaxHeight
    /\ first_record_height \in 1 .. (MaxHeight - 1)
    /\ tracked_txs # <<>>

\* C6: track_tx of a hash that is already tracked changes nothing: the stored
\* entry height and bucket stay, no ring-buffer counter moves.
C6_TrackTrackedNoEffect ==
    \A tx \in AllTxEntries :
        tx.hash \in DOMAIN tracked_txs => track_tx(Self, tx) = Self

C6_Witness ==
    /\ last.op = "track_tx"
    /\ last.tx.hash \in DOMAIN tracked_txs
    /\ last.tx.height = best_height
    /\ tracked_txs[last.tx.hash].height < last.tx.height
    /\ tracked_txs[last.tx.hash].bucket_index
          # bucket_index_by_feerate(Self, feerate(last.tx))

\* C7: track_tx of an entry whose height is not best_height (lower or higher)
\* changes nothing: the transaction is not tracked, no counter moves.
C7_TrackWrongHeightNoEffect ==
    \A tx \in AllTxEntries :
        tx.height # best_height => track_tx(Self, tx) = Self

C7_Witness ==
    /\ last.op = "track_tx"
    /\ last.tx.height > best_height
    /\ last.tx.hash \notin DOMAIN tracked_txs
    /\ tracks < MaxTracks

\* C8: track_tx of an entry whose feerate is above the highest boundary changes
\* nothing, and a drop_tx of that (untracked) hash right after returns false.
C8_TrackAboveBucketsNoEffect ==
    \A tx \in AllTxEntries :
        feerate(tx) > feerate_to_bucket[Len(feerate_to_bucket)] =>
            /\ track_tx(Self, tx) = Self
            /\ tx.hash \notin DOMAIN tracked_txs =>
                  drop_tx(track_tx(Self, tx), tx.hash) = [self |-> Self, ret |-> FALSE]

C8_Witness ==
    /\ last.op = "track_tx"
    /\ feerate(last.tx) > feerate_to_bucket[Len(feerate_to_bucket)]
    /\ last.tx.height = best_height
    /\ last.tx.hash \notin DOMAIN tracked_txs
    /\ tracks < MaxTracks

\* the bucket of feerate 2000 and whether a FeeRate lies in it
E2EBucket == bucket_index_by_feerate(Self, 2000 * F64_ONE)

InE2EBucket(rate) ==
    /\ E2EBucket # None
    /\ rate <= feerate_to_bucket[E2EBucket + 1]
    /\ E2EBucket > 0 => rate > feerate_to_bucket[E2EBucket]
    /\ rate # FeeRate_zero

\* estimate(2) after process_block(12, the 25 entries)
E2EEstimateAfterBlock12 ==
    estimate(process_block(Self, 12, E2EEntries(25)), 2)

\* C9 as stated: on a new engine (best_height 0), track_tx at height 10 of 25
\* entries of the bucket of feerate 2000, then process_block(12, the 25
\* entries), makes estimate(2) return a feerate inside that bucket.
C9_Original ==
    E2EHandedIn = 25 /\ best_height = 0 =>
        /\ ~E2EEstimateAfterBlock12.panicked
        /\ InE2EBucket(E2EEstimateAfterBlock12.ret)

\* C9 amended: the same once process_block(10, []) has brought the engine to
\* height 10 before the 25 track_tx calls.
C9_EstimateInBucketAtTip ==
    E2EHandedIn = 25 /\ best_height = 10 =>
        /\ ~E2EEstimateAfterBlock12.panicked
        /\ InE2EBucket(E2EEstimateAfterBlock12.ret)

C9_Witness ==
    /\ last.op = "estimate"
    /\ last.confirm_target = 2
    /\ best_height = 12
    /\ first_record_height = 12
    /\ bucket_stats[E2EBucket].txs_count = 25 * F64_ONE
    /\ InE2EBucket(last.ret)

\* C10: estimate_median returns FeeRate::zero() whenever no prefix of buckets
\* accumulates min_samples transactions, also when bucket 0 holds some (the
\* largest prefix is all buckets; estimate calls it with MIN_ESTIMATE_SAMPLES).
C10_ZeroBelowMinSamples ==
    ~panicked =>
        \A confirm_target \in 1 .. MAX_CONFIRM_BLOCKS :
            sum_txs_count(Self, 0, Len(feerate_to_bucket) - 1)
                  < MIN_ESTIMATE_SAMPLES * F64_ONE
               => estimate(Self, confirm_target).ret = FeeRate_zero

\* C11: on an engine that never confirmed a transaction (a new one, or one that
\* saw only track_tx, drop_tx and blocks resolving nothing: first_record_height
\* is still 0), estimate(confirm_target) returns FeeRate::zero() for every
\* confirm_target in 1 .. MAX_CONFIRM_BLOCKS.
C11_ZeroWithoutSamples ==
    ~panicked /\ first_record_height = 0 =>
        \A confirm_target \in 1 .. MAX_CONFIRM_BLOCKS :
            estimate(Self, confirm_target) = [ret |-> FeeRate_zero, panicked |-> FALSE]

C11_Witness ==
    /\ last.op = "estimate"
    /\ last.confirm_target = MAX_CONFIRM_BLOCKS
    /\ last.ret = FeeRate_zero
    /\ first_record_height = 0
    /\ best_height > 0
    /\ tracked_txs # <<>>

\* C12: track_tx of an entry at the tip followed at once by drop_tx leaves the
\* engine as if the entry had never been tracked (ring buffer,
\* old_unconfirmed_txs, failed matrix and all the rest, so that no later block
\* changes anything on its account); drop_tx returns true, and false the
\* second time.
C12_TrackThenDropLeavesNoTrace ==
    ~panicked =>
        \A tx \in AllTxEntries :
            /\ tx.height = best_height
            /\ tx.hash \notin DOMAIN tracked_txs
            /\ bucket_index_by_feerate(Self, feerate(tx)) # None
            => \E r \in {drop_tx(track_tx(Self, tx), tx.hash)} :
                  /\ r = [self |-> Self, ret |-> TRUE]
                  /\ drop_tx(r.self, tx.hash).ret = FALSE

\* C13: estimate(confirm_target) returns a FeeRate without failing for every
\* confirm_target >= 1, also above MAX_CONFIRM_BLOCKS (ConfirmTargets reaches
\* one row past the matrices).
C13_EstimateNeverFails ==
    ~panicked =>
        \A confirm_target \in ConfirmTargets :
            confirm_target >= 1 =>
                \E r \in {estimate(Self, confirm_target)} :
                    ~r.panicked /\ r.ret >= FeeRate_zero

\* the entries of a matrix that differ between two engines
Changed(m1, m2, self) == {<<i, b>> \in RowIdx \X BucketIdx(self) : m1[i][b] # m2[i][b]}

\* C14: a tracked entry is resolved once, by whichever of process_block and
\* drop_tx comes first. drop_tx of a tracked hash removes it, adds no
\* confirmed sample and at most one failed sample; a block listing tracked
\* hashes (once or twice) removes them, adds one confirmed sample each and no
\* failed sample. After either, drop_tx of the hash returns false and changes
\* nothing, and a block listing it does what the empty block does.
C14_ResolvedOnce ==
    ~panicked =>
        /\ \A tx_hash \in DOMAIN tracked_txs :
             \E d \in {drop_tx(Self, tx_hash).self} :
                /\ tx_hash \notin DOMAIN d.tracked_txs
                /\ d.confirm_target_to_confirmed_txs = confirm_target_to_confirmed_txs
                /\ \A b \in BucketIdx(Self) :
                      /\ d.bucket_stats[b].txs_count = bucket_stats[b].txs_count
                      /\ d.bucket_stats[b].total_feerate = bucket_stats[b].total_feerate
                /\ Cardinality(Changed(d.confirm_target_to_failed_txs,
                                       confirm_target_to_failed_txs, Self)) <= 1
                /\ \A c \in Changed(d.confirm_target_to_failed_txs,
                                    confirm_target_to_failed_txs, Self) :
                      d.confirm_target_to_failed_txs[c[1]][c[2]]
                          = confirm_target_to_failed_txs[c[1]][c[2]] + F64_ONE
                /\ drop_tx(d, tx_hash) = [self |-> d, ret |-> FALSE]
                /\ ~d.panicked =>
                      \A height \in Heights : height > best_height =>
                          process_block(d, height, <<PoolEntry(tx_hash, height)>>)
                              = process_block(d, height, <<>>)
        /\ \A height \in Heights : \A txs \in AnyBlocks(height) :
             height > best_height =>
                \E p \in {process_block(Self, height, txs)} :
                   ~p.panicked =>
                      /\ \A i \in 1 .. Len(txs) : txs[i].hash \notin DOMAIN p.tracked_txs
                      /\ \A b \in BucketIdx(Self) :
                            p.bucket_stats[b].txs_count =
                                decay(Self).bucket_stats[b].txs_count
                                + F64_ONE * Cardinality(ListedTracked(txs, b))
                      /\ p.confirm_target_to_failed_txs
                            = decay(Self).confirm_target_to_failed_txs
                      /\ \A i \in 1 .. Len(txs) :
                            drop_tx(p, txs[i].hash) = [self |-> p, ret |-> FALSE]
                      /\ \A next \in Heights : next > height =>
                            process_block(p, next, txs) = process_block(p, next, <<>>)

C14_Witness ==
    /\ last.op = "drop_tx" /\ last.ret = TRUE
    /\ tracked_txs = <<>>
    /\ tracks = 2
    /\ \E b \in BucketIdx(Self) : bucket_stats[b].txs_count > 0
    /\ \E i \in RowIdx : \E b \in BucketIdx(Self) : confirm_target_to_failed_txs[i][b] > 0

\* feerates handed to TxConfirmStat: zero, every bucket boundary, its two
\* neighbours (the upper neighbour of the last boundary has no bucket)
Rates ==
    {FeeRate_zero} \cup UNION {{feerate_to_bucket[k] - 1, feerate_to_bucket[k],
                                feerate_to_bucket[k] + 1} : k \in DOMAIN feerate_to_bucket}

\* blocks_to_confirm handed to add_confirmed_tx: 0, the rows, one and two past
ConfirmAges == 0 .. (MAX_CONFIRM_BLOCKS + 2)

\* C15: for K >= 1 and a feerate that has a bucket, add_confirmed_tx(K, rate)
\* adds 1 to confirmed[t][bucket(rate)] for K-1 <= t < MAX_CONFIRM_BLOCKS and
\* to nothing else of the confirmed matrix, adds 1 to the bucket's txs_count
\* and rate to its total_feerate, and leaves the rest of the engine alone.
C15_AddConfirmedRows ==
    \A K \in ConfirmAges : \A rate \in Rates :
        K >= 1 /\ bucket_index_by_feerate(Self, rate) # None =>
            \E r \in {add_confirmed_tx(Self, K, rate)} :
              \E bucket \in {bucket_index_by_feerate(Self, rate)} :
                /\ \A t \in RowIdx : \A b \in BucketIdx(Self) :
                      r.confirm_target_to_confirmed_txs[t][b] =
                          confirm_target_to_confirmed_txs[t][b]
                          + (IF b = bucket /\ t >= K - 1 THEN F64_ONE ELSE 0)
                /\ r.bucket_stats[bucket].txs_count = bucket_stats[bucket].txs_count + F64_ONE
                /\ r.bucket_stats[bucket].total_feerate
                      = bucket_stats[bucket].total_feerate + rate
                /\ r = [Self EXCEPT
                          !.confirm_target_to_confirmed_txs = r.confirm_target_to_confirmed_txs,
                          !.bucket_stats[bucket].txs_count = @ + F64_ONE,
                          !.bucket_stats[bucket].total_feerate = @ + rate]

\* a block has just confirmed, two blocks after it entered, the only sample of
\* bucket 1: row 0 of the column is untouched, row 1 counts it
C15_Witness ==
    /\ last.op = "process_block"
    /\ \E i \in 1 .. Len(last.txs) : last.txs[i].height = last.height - 2
    /\ confirm_target_to_confirmed_txs[0][1] = 0
    /\ confirm_target_to_confirmed_txs[1][1] = F64_ONE
    /\ bucket_stats[1].txs_count = F64_ONE
    /\ bucket_stats[1].total_feerate = feerate_to_bucket[2]

\* ------------------------------------------------------------------ TxConfirmStat alone
\* The public methods of TxConfirmStat called directly on the statistics of a
\* new engine; tracks counts the calls made.
MaxStatCalls == 3

\* feerates handed in: every boundary and one above the last
StatRates ==
    {feerate_to_bucket[k] : k \in DOMAIN feerate_to_bucket}
        \cup {feerate_to_bucket[Len(feerate_to_bucket)] + 1}

StatInit ==
    /\ overflow_checks \in BOOLEAN
    /\ Is(Estimator_new(MAX_BUCKET_FEERATE, overflow_checks))
    /\ tracks = 0
    /\ last = [op |-> "new"]

StatAddConfirmedTx ==
    /\ tracks < MaxStatCalls
    /\ tracks' = tracks + 1
    /\ \E blocks_to_confirm \in ConfirmAges : \E rate \in StatRates :
         /\ Becomes(add_confirmed_tx(Self, blocks_to_confirm, rate))
         /\ last' = [op |-> "add_confirmed_tx",
                     blocks_to_confirm |-> blocks_to_confirm, rate |-> rate]

StatDecay ==
    /\ tracks < MaxStatCalls
    /\ tracks' = tracks + 1
    /\ Becomes(decay(Self))
    /\ last' = [op |-> "decay"]

StatNext == StatAddConfirmedTx \/ StatDecay

StatSpec == StatInit /\ [][StatNext]_vars

\* C16: add_confirmed_tx(0, rate) changes nothing: confirmed and failed
\* matrices, per-bucket txs_count and total_feerate, unconfirmed counters.
C16_AddConfirmedZeroNoEffect ==
    \A rate \in Rates : add_confirmed_tx(Self, 0, rate) = Self

C16_Witness ==
    /\ last.op = "add_confirmed_tx"
    /\ last.blocks_to_confirm = 0
    /\ bucket_index_by_feerate(Self, last.rate) = 1
    /\ bucket_stats[1].txs_count > 0
    /\ bucket_stats[1].txs_count < F64_ONE

\* C17: drop_tx of a tracked transaction of age best_height - entry height >= 1
\* (ages at and beyond the window included) adds 1 to failed[age - 1][bucket]
\* and changes nothing else of the failed matrix and nothing of the confirmed
\* matrix; a block resolving transactions leaves the failed matrix as decay
\* left it.
C17_DropCountsOneFailure ==
    ~panicked =>
        /\ \A tx_hash \in DOMAIN tracked_txs :
             best_height - tracked_txs[tx_hash].height >= 1 =>
                \E d \in {drop_tx(Self, tx_hash).self} :
                  \E age \in {best_height - tracked_txs[tx_hash].height} :
                    /\ ~d.panicked
                    /\ d.confirm_target_to_confirmed_txs = confirm_target_to_confirmed_txs
                    /\ Changed(d.confirm_target_to_failed_txs,
                               confirm_target_to_failed_txs, Self)
                          = {<<age - 1, tracked_txs[tx_hash].bucket_index>>}
                    /\ d.confirm_target_to_failed_txs[age - 1][tracked_txs[tx_hash].bucket_index]
                          = confirm_target_to_failed_txs[age - 1][tracked_txs[tx_hash].bucket_index]
                            + F64_ONE
        /\ \A height \in Heights : \A txs \in AnyBlocks(height) :
             height > best_height =>
                \E p \in {process_block(Self, height, txs)} :
                   ~p.panicked => p.confirm_target_to_failed_txs
                                     = decay(Self).confirm_target_to_failed_txs

\* decay applied N times over
MaxDecays == 3

RECURSIVE decay_times(_, _)
decay_times(self, N) == IF N = 0 THEN self ELSE decay(decay_times(self, N - 1))

\* x scaled N times by decay_factor, each product rounded as f64 rounds it here
RECURSIVE Scaled(_, _)
Scaled(x, N) == IF N = 0 THEN x ELSE MulF64(Scaled(x, N - 1), decay_factor)

RECURSIVE Pow(_, _)
Pow(x, N) == IF N = 0 THEN 1 ELSE x * Pow(x, N - 1)

\* y is x * decay_factor^N up to the N roundings (for x up to 2.0 and N up to
\* 2 the products stay within the integers of the model)
ScalesBy(x, y, N) ==
    x <= 2 * F64_ONE /\ N <= 2 =>
        /\ Pow(decay_factor.den, N) * y <= x * Pow(decay_factor.num, N)
        /\ x * Pow(decay_factor.num, N) < Pow(decay_factor.den, N) * (y + N)

\* C18: decay multiplies every entry of the confirmed and failed matrices and
\* every bucket's total_feerate and txs_count by decay_factor and touches
\* nothing else; N applications in a row scale each by decay_factor^N.
C18_DecayScalesCounters ==
    \A N \in 1 .. MaxDecays :
        \E r \in {decay_times(Self, N)} :
            /\ \A t \in RowIdx : \A b \in BucketIdx(Self) :
                  /\ r.confirm_target_to_confirmed_txs[t][b]
                        = Scaled(confirm_target_to_confirmed_txs[t][b], N)
                  /\ r.confirm_target_to_failed_txs[t][b]
                        = Scaled(confirm_target_to_failed_txs[t][b], N)
                  /\ ScalesBy(confirm_target_to_confirmed_txs[t][b],
                              r.confirm_target_to_confirmed_txs[t][b], N)
                  /\ ScalesBy(confirm_target_to_failed_txs[t][b],
                              r.confirm_target_to_failed_txs[t][b], N)
            /\ \A b \in BucketIdx(Self) :
                  /\ r.bucket_stats[b].txs_count = Scaled(bucket_stats[b].txs_count, N)
                  /\ r.bucket_stats[b].total_feerate = Scaled(bucket_stats[b].total_feerate, N)
                  /\ r.bucket_stats[b].old_unconfirmed_txs = bucket_stats[b].old_unconfirmed_txs
                  /\ ScalesBy(bucket_stats[b].txs_count, r.bucket_stats[b].txs_count, N)
            /\ r = [Self EXCEPT
                      !.confirm_target_to_confirmed_txs = r.confirm_target_to_confirmed_txs,
                      !.confirm_target_to_failed_txs = r.confirm_target_to_failed_txs,
                      !.bucket_stats = r.bucket_stats]

\* two empty blocks in a row after the block that confirmed the first sample
\* of bucket 0 and the drop_tx that counted a failure
C18_Witness ==
    /\ last.op = "process_block" /\ last.txs = <<>>
    /\ best_height = MaxHeight
    /\ first_record_height = 1
    /\ bucket_stats[0].txs_count = Scaled(F64_ONE, 2)
    /\ confirm_target_to_confirmed_txs[0][0] = Scaled(F64_ONE, 2)
    /\ confirm_target_to_failed_txs[0] # [b \in BucketIdx(Self) |-> 0]

\* C19: every cumulative counter is >= 0 in every reachable state: each entry
\* of the confirmed and failed matrices, each bucket's txs_count and
\* total_feerate (feerates are >= 0, decay_factor is in (0, 1)).
C19_CountersNonNegative ==
    /\ decay_factor.num > 0 /\ decay_factor.num < decay_factor.den
    /\ \A t \in RowIdx : \A b \in BucketIdx(Self) :
          /\ confirm_target_to_confirmed_txs[t][b] >= 0
          /\ confirm_target_to_failed_txs[t][b] >= 0
    /\ \A b \in BucketIdx(Self) :
          /\ bucket_stats[b].txs_count >= 0
          /\ bucket_stats[b].total_feerate >= 0

\* a confirmed and a failed sample, both decayed since
C19_Witness ==
    /\ last.op = "process_block"
    /\ \E b \in BucketIdx(Self) :
          /\ bucket_stats[b].txs_count > 0 /\ bucket_stats[b].txs_count < F64_ONE
          /\ bucket_stats[b].total_feerate > 0
    /\ \E t \in RowIdx : \E b \in BucketIdx(Self) :
          /\ confirm_target_to_failed_txs[t][b] > 0
          /\ confirm_target_to_failed_txs[t][b] < F64_ONE

\* C20: estimate is a pure read: for every confirm_target an estimate call
\* leaves best_height, first_record_height, the tracked map and every
\* statistic as they were, and an estimate call right after another with the
\* same confirm_target returns the same value.
C20_EstimatePureRead ==
    [][last'.op = "estimate" =>
          /\ engine' = engine
          /\ (last.op = "estimate" /\ last.confirm_target = last'.confirm_target)
                => last'.ret = last.ret]_vars

C20_Witness ==
    /\ last.op = "estimate"
    /\ last.ret > FeeRate_zero
    /\ tracked_txs # <<>>
    /\ \E b \in BucketIdx(Self) : bucket_stats[b].old_unconfirmed_txs > 0

\* C21: the boundaries built at construction are strictly increasing, the
\* first is the minimum (1000), the last is <= maximum * spacing, and the
\* bucket index of each boundary is its rank in ascending order; for the table
\* of the engine and for the tables of both maxima.
SortedBuckets(buckets, max_bucket_feerate) ==
    /\ Len(buckets) >= 1
    /\ \A j, k \in DOMAIN buckets : j < k => buckets[j] < buckets[k]
    /\ buckets[1] = MIN_BUCKET_FEERATE * F64_ONE
    /\ buckets[Len(buckets)] <= MulF64(max_bucket_feerate * F64_ONE, FEE_SPACING)

C21_BucketsAscending ==
    /\ SortedBuckets(feerate_to_bucket, E2E_MAX_BUCKET_FEERATE)
    /\ \A k \in DOMAIN feerate_to_bucket :
          bucket_index_by_feerate(Self, feerate_to_bucket[k])
              = Cardinality({j \in DOMAIN feerate_to_bucket :
                                feerate_to_bucket[j] < feerate_to_bucket[k]})
    /\ \A max_bucket_feerate \in {MAX_BUCKET_FEERATE, E2E_MAX_BUCKET_FEERATE} :
          SortedBuckets(new_buckets(MIN_BUCKET_FEERATE * F64_ONE, max_bucket_feerate),
                        max_bucket_feerate)

\* the engine right after construction, with more than one boundary beyond 2000
C21_Witness ==
    /\ last.op = "new"
    /\ best_height = 0
    /\ Len(feerate_to_bucket) > 3
    /\ feerate_to_bucket[Len(feerate_to_bucket) - 1] > 2000 * F64_ONE
    /\ DOMAIN bucket_stats = 0 .. (Len(feerate_to_bucket) - 1)

\* every FeeRate the engine holds or hands out
HeldFeeRates ==
    {feerate_to_bucket[k] : k \in DOMAIN feerate_to_bucket}
        \cup {bucket_stats[b].total_feerate : b \in BucketIdx(Self)}
        \cup {avg_feerate(bucket_stats[b]) : b \in BucketIdx(Self)}
        \cup {estimate(Self, confirm_target).ret : confirm_target \in 1 .. MAX_CONFIRM_BLOCKS}

\* C22: FeeRate::from_f64 of NaN is None and of any other value is that
\* FeeRate; zero().add(zero()) is zero; no FeeRate held by the engine is NaN,
\* and a sum that would be NaN never replaces a bucket's total_feerate.
C22_NoNaNFeeRate ==
    /\ FeeRate_from_f64(F64_NaN) = None
    /\ \A value \in Rates \cup (HeldFeeRates \ {None}) :
          FeeRate_from_f64(value) = value /\ FeeRate_from_f64(value) # None
    /\ FeeRate_add(FeeRate_zero, FeeRate_zero) = FeeRate_zero
    /\ F64_NaN \notin HeldFeeRates
    /\ \A b \in BucketIdx(Self) : \A rate \in Rates \cup {F64_NaN} :
          inc_total_feerate(bucket_stats[b], rate).total_feerate # F64_NaN

\* a block has just confirmed a second sample into a bucket: its
\* total_feerate went through FeeRate::add twice
C22_Witness ==
    /\ last.op = "process_block"
    /\ \E i \in 1 .. Len(last.txs) : last.txs[i].hash \notin DOMAIN tracked_txs
    /\ \E b \in BucketIdx(Self) :
          /\ bucket_stats[b].txs_count > F64_ONE
          /\ bucket_stats[b].total_feerate > feerate_to_bucket[b + 1]
          /\ avg_feerate(bucket_stats[b]) # None

\* the tracked transactions a block lists, by bucket, with their age at the block
ListedAged(txs, b, height, ages) ==
    {h \in ListedTracked(txs, b) : (height - tracked_txs[h].height) \in ages}

\* C23: a process_block above the tip sets best_height, rolls the window once,
\* decays once, then resolves the listed transactions: every counter recorded
\* before is scaled once by decay_factor, every sample the block confirms
\* counts a full 1 on top, and the transactions it resolves leave the ring
\* row of their entry height, or old_unconfirmed_txs when the window has
\* rolled over them (this block's roll included).
C23_BlockStepsInOrder ==
    ~panicked =>
      \A height \in Heights : \A txs \in AnyBlocks(height) :
        height > best_height =>
          \E p \in {process_block(Self, height, txs)} :
            ~p.panicked =>
              /\ p.best_height = height
              /\ p.confirm_target_to_failed_txs = decay(Self).confirm_target_to_failed_txs
              /\ \A b \in BucketIdx(Self) :
                  /\ p.bucket_stats[b].txs_count =
                        MulF64(bucket_stats[b].txs_count, decay_factor)
                        + F64_ONE * Cardinality(ListedTracked(txs, b))
                  /\ p.bucket_stats[b].total_feerate =
                        MulF64(bucket_stats[b].total_feerate, decay_factor)
                        + SumOver([h \in Hashes |-> feerate(PoolEntry(h, height))],
                                  ListedTracked(txs, b))
                  /\ \A t \in RowIdx :
                        p.confirm_target_to_confirmed_txs[t][b] =
                            MulF64(confirm_target_to_confirmed_txs[t][b], decay_factor)
                            + F64_ONE * Cardinality(ListedAged(txs, b, height, 1 .. (t + 1)))
                  /\ p.bucket_stats[b].old_unconfirmed_txs =
                        bucket_stats[b].old_unconfirmed_txs
                        + block_unconfirmed_txs[height % MAX_CONFIRM_BLOCKS][b]
                        - Cardinality(ListedAged(txs, b, height,
                                                 MAX_CONFIRM_BLOCKS .. MaxHeight))
                  /\ p.block_unconfirmed_txs[height % MAX_CONFIRM_BLOCKS][b] = 0
                  /\ \A i \in RowIdx \ {height % MAX_CONFIRM_BLOCKS} :
                        p.block_unconfirmed_txs[i][b] =
                            block_unconfirmed_txs[i][b]
                            - Cardinality({h \in ListedAged(txs, b, height,
                                                            1 .. (MAX_CONFIRM_BLOCKS - 1)) :
                                             tracked_txs[h].height % MAX_CONFIRM_BLOCKS = i})

\* a block has just confirmed a sample into a bucket that held one sample from
\* the block before: the old one decayed once, the new one whole
C23_Witness ==
    /\ last.op = "process_block"
    /\ best_height = last.height
    /\ first_record_height = best_height - 1
    /\ \E b \in BucketIdx(Self) :
          /\ bucket_stats[b].txs_count = MulF64(F64_ONE, decay_factor) + F64_ONE
          /\ confirm_target_to_confirmed_txs[0][b] = MulF64(F64_ONE, decay_factor) + F64_ONE

\* C24: whatever heights the blocks came at, the tracked transactions of a
\* bucket whose age best_height - entry height is >= the window are counted
\* in old_unconfirmed_txs of the bucket, so that resolving any of them finds
\* the counter >= 1.
C24_AgedOutAreOld ==
    ~panicked =>
        \A b \in BucketIdx(Self) :
            /\ Cardinality({h \in TrackedIn(b) :
                              best_height - tracked_txs[h].height >= MAX_CONFIRM_BLOCKS})
                  <= bucket_stats[b].old_unconfirmed_txs
            /\ \A h \in TrackedIn(b) :
                  best_height - tracked_txs[h].height >= MAX_CONFIRM_BLOCKS
                      => bucket_stats[b].old_unconfirmed_txs >= 1

\* C25: move_track_window(height) adds row height mod window of the ring to
\* old_unconfirmed_txs, bucket by bucket, and zeroes the row; the other rows,
\* the confirmed and failed matrices, txs_count and total_feerate stay, and so
\* does, per bucket, the sum of the ring rows plus old_unconfirmed_txs.
C25_WindowRollMovesRow ==
    \A height \in Heights :
        \E r \in {move_track_window(Self, height)} :
          \E slot \in {height % MAX_CONFIRM_BLOCKS} :
            /\ \A b \in BucketIdx(Self) :
                  /\ r.bucket_stats[b].old_unconfirmed_txs
                        = bucket_stats[b].old_unconfirmed_txs + block_unconfirmed_txs[slot][b]
                  /\ r.block_unconfirmed_txs[slot][b] = 0
                  /\ r.bucket_stats[b].txs_count = bucket_stats[b].txs_count
                  /\ r.bucket_stats[b].total_feerate = bucket_stats[b].total_feerate
                  /\ SumOver([i \in RowIdx |-> r.block_unconfirmed_txs[i][b]], RowIdx)
                        + r.bucket_stats[b].old_unconfirmed_txs
                     = RingCount(b) + bucket_stats[b].old_unconfirmed_txs
            /\ \A i \in RowIdx \ {slot} : r.block_unconfirmed_txs[i] = block_unconfirmed_txs[i]
            /\ r = [Self EXCEPT !.bucket_stats = r.bucket_stats,
                                !.block_unconfirmed_txs = r.block_unconfirmed_txs]

\* the block just processed rolled the window over the row of a transaction
\* that is still tracked, one window after it entered
C25_Witness ==
    /\ last.op = "process_block"
    /\ last.height = best_height
    /\ \E h \in DOMAIN tracked_txs :
          /\ tracked_txs[h].height = best_height - MAX_CONFIRM_BLOCKS
          /\ bucket_stats[tracked_txs[h].bucket_index].old_unconfirmed_txs = 1
          /\ RingCount(tracked_txs[h].bucket_index) = 0

\* C26: decay leaves old_unconfirmed_txs of every bucket, every ring row and
\* the tracked map as they were.
C26_DecayLeavesUnconfirmed ==
    \E d \in {decay(Self)} :
        /\ \A b \in BucketIdx(Self) :
              d.bucket_stats[b].old_unconfirmed_txs = bucket_stats[b].old_unconfirmed_txs
        /\ d.block_unconfirmed_txs = block_unconfirmed_txs
        /\ d.tracked_txs = tracked_txs

\* a block that decayed a sample while one transaction sat in the ring and
\* another in old_unconfirmed_txs
C26_Witness ==
    /\ last.op = "process_block"
    /\ Cardinality(DOMAIN tracked_txs) = 2
    /\ \E b \in BucketIdx(Self) : bucket_stats[b].old_unconfirmed_txs = 1
    /\ \E b \in BucketIdx(Self) : RingCount(b) = 1

\* C27: the confirmed matrix is cumulative in the target: in every reachable
\* state confirmed[t1][b] <= confirmed[t2][b] for every bucket b and all
\* targets t1 <= t2 below the window.
C27_ConfirmedCumulative ==
    \A b \in BucketIdx(Self) : \A t1, t2 \in RowIdx :
        t1 <= t2 => confirm_target_to_confirmed_txs[t1][b] <= confirm_target_to_confirmed_txs[t2][b]

\* a sample confirmed after one block, decayed since, and one confirmed after
\* two blocks in the same bucket
C27_Witness ==
    \E b \in BucketIdx(Self) :
        /\ confirm_target_to_confirmed_txs[0][b] > 0
        /\ confirm_target_to_confirmed_txs[0][b] < F64_ONE
        /\ confirm_target_to_confirmed_txs[1][b] > F64_ONE
        /\ bucket_stats[b].txs_count = confirm_target_to_confirmed_txs[1][b]

\* C28: failed[t][b] counts the transactions of bucket b evicted while still
\* unconfirmed after t + 1 blocks: a drop_tx at age a (no decay happens in it)
\* adds 1 to failed[t][b] for every row t with t + 1 <= a, not only to row
\* a - 1.
C28_FailedCumulative ==
    ~panicked =>
        \A tx_hash \in DOMAIN tracked_txs :
            \E d \in {drop_tx(Self, tx_hash).self} :
              \E age \in {best_height - tracked_txs[tx_hash].height} :
                ~d.panicked =>
                    \A t \in RowIdx :
                        t + 1 <= age =>
                            d.confirm_target_to_failed_txs[t][tracked_txs[tx_hash].bucket_index]
                              = confirm_target_to_failed_txs[t][tracked_txs[tx_hash].bucket_index]
                                + F64_ONE

\* ------------------------------------------------------------------ estimate_median
\* The engine driven as in Spec, with TxConfirmStat::estimate_median called on
\* its statistics with thresholds that a few samples reach.
MaxRequiredSamples == 1

RequiredSamples == 0 .. MaxRequiredSamples

ConfirmRates == {[num |-> 1, den |-> 2], MIN_ESTIMATE_CONFIRM_RATE}

EstimateMedian ==
    /\ ~panicked
    /\ tracks' = tracks
    /\ \E confirm_target \in 1 .. MAX_CONFIRM_BLOCKS :
         \E required_samples \in RequiredSamples : \E confirm_rate \in ConfirmRates :
            \E r \in {estimate_median(Self, confirm_target, required_samples, confirm_rate)} :
               /\ Becomes([Self EXCEPT !.panicked = r.panicked])
               /\ last' = [op |-> "estimate_median", confirm_target |-> confirm_target,
                           required_samples |-> required_samples,
                           confirm_rate |-> confirm_rate, ret |-> r.ret]

MedianNext == TrackTx \/ ProcessBlock \/ DropTx \/ EstimateMedian

MedianSpec == Init /\ [][MedianNext]_vars

\* f[0] + .. + f[k]
RECURSIVE PrefixSum(_, _)
PrefixSum(f, k) == IF k < 0 THEN 0 ELSE f[k] + PrefixSum(f, k - 1)

\* the four sums estimate_median holds for the prefix [0, k] at a target
PrefixTxs(k) == PrefixSum([b \in BucketIdx(Self) |-> bucket_stats[b].txs_count], k)
PrefixConfirmed(k, confirm_target) ==
    PrefixSum(confirm_target_to_confirmed_txs[confirm_target - 1], k)
PrefixFailed(k, confirm_target) ==
    PrefixSum(confirm_target_to_failed_txs[confirm_target - 1], k)
PrefixExtra(k, confirm_target) ==
    PrefixSum(block_unconfirmed_txs[confirm_target - 1], k)

\* the prefix [0, k] has more than required_samples and a rate above confirm_rate
Accepted(k, confirm_target, required_samples, confirm_rate) ==
    /\ PrefixTxs(k) > required_samples * F64_ONE
    /\ confirmed_percent_gt(PrefixConfirmed(k, confirm_target), PrefixTxs(k),
                            PrefixFailed(k, confirm_target),
                            PrefixExtra(k, confirm_target), confirm_rate)

\* the rate of the prefix [0, k] is confirm_rate exactly
Tied(k, confirm_target, confirm_rate) ==
    /\ PrefixExtra(k, confirm_target) >= 0
    /\ PrefixConfirmed(k, confirm_target) > 0
    /\ PrefixConfirmed(k, confirm_target) * confirm_rate.den
          = confirm_rate.num * (PrefixTxs(k) + PrefixFailed(k, confirm_target)
                                + PrefixExtra(k, confirm_target) * F64_ONE)

\* the end of the best range: the smallest accepted prefix, None without one
BestEnd(confirm_target, required_samples, confirm_rate) ==
    LET ends == {k \in BucketIdx(Self) :
                    Accepted(k, confirm_target, required_samples, confirm_rate)}
    IN IF ends = {} THEN None ELSE CHOOSE k \in ends : \A j \in ends : k <= j

\* the rate confirmed / (txs_count + failed + extra) of the prefix [0, k] is
\* at least confirm_rate
MeetsThreshold(k, confirm_target, confirm_rate) ==
    IF PrefixExtra(k, confirm_target) < 0
    THEN confirm_rate.num <= 0
    ELSE /\ PrefixTxs(k) + PrefixFailed(k, confirm_target)
              + PrefixExtra(k, confirm_target) * F64_ONE > 0
         /\ PrefixConfirmed(k, confirm_target) * confirm_rate.den
              >= confirm_rate.num * (PrefixTxs(k) + PrefixFailed(k, confirm_target)
                                     + PrefixExtra(k, confirm_target) * F64_ONE)

\* the smallest prefix with more than required_samples that meets the threshold
MeetingEnd(confirm_target, required_samples, confirm_rate) ==
    LET ends == {k \in BucketIdx(Self) :
                    /\ PrefixTxs(k) > required_samples * F64_ONE
                    /\ MeetsThreshold(k, confirm_target, confirm_rate)}
    IN IF ends = {} THEN None ELSE CHOOSE k \in ends : \A j \in ends : k <= j

\* Outside the states in which some prefix has a rate equal to the threshold,
\* the scan ends at the smallest prefix [0, k] whose sums, carried from bucket
\* 0 on without a reset, have txs_count > required_samples and a rate above
\* the threshold; a prefix with exactly required_samples is passed over; the
\* value returned is the median of [0, k].
BestRangeIsSmallestPrefixUntied ==
    ~panicked =>
      \A confirm_target \in 1 .. MAX_CONFIRM_BLOCKS :
        \A required_samples \in RequiredSamples : \A confirm_rate \in ConfirmRates :
          (\A k \in BucketIdx(Self) : ~Tied(k, confirm_target, confirm_rate)) =>
            \E end \in {BestEnd(confirm_target, required_samples, confirm_rate)} :
              /\ scan_buckets(Self, confirm_target, required_samples, confirm_rate,
                              0, 0, 0, 0, 0) = end
              /\ end = MeetingEnd(confirm_target, required_samples, confirm_rate)
              /\ \A k \in BucketIdx(Self) :
                    PrefixTxs(k) = required_samples * F64_ONE => end = None \/ end > k
              /\ end # None =>
                    estimate_median(Self, confirm_target, required_samples, confirm_rate).ret
                        = find_median(Self, 0, end, PrefixTxs(end))

\* best_bucket_end when the scan loop of estimate_median is over: the bucket
\* of the break, 0 without one
best_bucket_end(self, confirm_target, required_samples, confirm_rate) ==
    LET found == scan_buckets(self, confirm_target, required_samples, confirm_rate,
                              0, 0, 0, 0, 0)
    IN IF found = None THEN 0 ELSE found

\* C29: the best range of estimate_median starts at bucket 0 and ends at the
\* smallest k whose prefix [0, k] has, summed from bucket 0 on without a
\* reset, a txs_count strictly above min_samples and a confirmed rate
\* confirmed / (txs_count + failed + extra) that meets the threshold (is at
\* least min_confirm_rate); a prefix with exactly min_samples is not evaluated.
C29_BestRangeIsSmallestPrefix ==
    ~panicked =>
      \A confirm_target \in 1 .. MAX_CONFIRM_BLOCKS :
        \A required_samples \in RequiredSamples : \A confirm_rate \in ConfirmRates :
          /\ MeetingEnd(confirm_target, required_samples, confirm_rate) # None =>
                best_bucket_end(Self, confirm_target, required_samples, confirm_rate)
                    = MeetingEnd(confirm_target, required_samples, confirm_rate)
          /\ \A k \in BucketIdx(Self) :
                PrefixTxs(k) = required_samples * F64_ONE =>
                    scan_buckets(Self, confirm_target, required_samples, confirm_rate,
                                 0, 0, 0, 0, 0) \notin 0 .. k

\* C30: in estimate_median a scanned prefix [0, k] with more than min_samples
\* whose confirmed rate equals min_confirm_rate exactly is accepted as the
\* best range (the comparison is >=): when no shorter prefix is accepted, the
\* value returned is the median of [0, k].
C30_EqualRateAccepted ==
    ~panicked =>
      \A confirm_target \in 1 .. MAX_CONFIRM_BLOCKS :
        \A required_samples \in RequiredSamples : \A confirm_rate \in ConfirmRates :
          \A k \in BucketIdx(Self) :
            (/\ PrefixTxs(k) > required_samples * F64_ONE
             /\ Tied(k, confirm_target, confirm_rate)
             /\ MeetingEnd(confirm_target, required_samples, confirm_rate) = k) =>
                estimate_median(Self, confirm_target, required_samples, confirm_rate).ret
                    = find_median(Self, 0, k, PrefixTxs(k))

\* C31: when the scan of estimate_median passes every bucket without a prefix
\* that has more than min_samples and a rate above the threshold, the best
\* range is [0, 0]: the result is zero when bucket 0 has txs_count 0 and the
\* average feerate of bucket 0 otherwise.
C31_FallbackIsBucketZero ==
    ~panicked =>
      \A confirm_target \in 1 .. MAX_CONFIRM_BLOCKS :
        \A required_samples \in RequiredSamples : \A confirm_rate \in ConfirmRates :
          BestEnd(confirm_target, required_samples, confirm_rate) = None =>
            /\ best_bucket_end(Self, confirm_target, required_samples, confirm_rate) = 0
            /\ estimate_median(Self, confirm_target, required_samples, confirm_rate).ret
                 = IF bucket_stats[0].txs_count = 0 THEN FeeRate_zero
                   ELSE avg_feerate(bucket_stats[0])

\* estimate_median has just returned the average of a bucket 0 that holds a
\* sample, after a scan in which no prefix was accepted
C31_Witness ==
    /\ last.op = "estimate_median"
    /\ BestEnd(last.confirm_target, last.required_samples, last.confirm_rate) = None
    /\ bucket_stats[0].txs_count > 0
    /\ last.ret = avg_feerate(bucket_stats[0])
    /\ last.ret > FeeRate_zero

\* the first bucket of [0, e] at which the txs_count summed from bucket 0
\* reaches half of total
MedianBucket(e, total) == CHOOSE m \in 0 .. e :
    /\ 2 * PrefixTxs(m) >= total
    /\ \A j \in 0 .. (m - 1) : 2 * PrefixTxs(j) < total

\* C32: within the best range [s, e] estimate_median returns total_feerate /
\* txs_count of the first bucket, in ascending order, at which the txs_count
\* summed over [s, bucket] reaches half of the total of the range, and zero
\* when that total is zero; the bucket lies in [s, e] and, the total being
\* non-zero, has a non-zero txs_count.
C32_MedianOfBestRange ==
    ~panicked =>
      \A confirm_target \in 1 .. MAX_CONFIRM_BLOCKS :
        \A required_samples \in RequiredSamples : \A confirm_rate \in ConfirmRates :
          \E e \in {best_bucket_end(Self, confirm_target, required_samples, confirm_rate)} :
            \E ret \in {estimate_median(Self, confirm_target, required_samples,
                                        confirm_rate).ret} :
              IF PrefixTxs(e) = 0 THEN ret = FeeRate_zero
              ELSE /\ \E m \in 0 .. e : 2 * PrefixTxs(m) >= PrefixTxs(e)
                   /\ bucket_stats[MedianBucket(e, PrefixTxs(e))].txs_count > 0
                   /\ ret = avg_feerate(bucket_stats[MedianBucket(e, PrefixTxs(e))])

\* estimate_median has just returned the average of bucket 1, the median of a
\* best range [0, 1] whose bucket 0 holds less than half of the samples
C32_Witness ==
    /\ last.op = "estimate_median"
    /\ best_bucket_end(Self, last.confirm_target, last.required_samples,
                       last.confirm_rate) = 1
    /\ bucket_stats[0].txs_count > 0
    /\ MedianBucket(1, PrefixTxs(1)) = 1
    /\ last.ret = avg_feerate(bucket_stats[1])
    /\ last.ret # avg_feerate(bucket_stats[0])

\* the tracked transactions of buckets 0 .. k that stayed unconfirmed past the
\* window
AgedOutIn(k) ==
    {h \in DOMAIN tracked_txs :
        /\ tracked_txs[h].bucket_index <= k
        /\ best_height - tracked_txs[h].height >= MAX_CONFIRM_BLOCKS}

\* old_unconfirmed_txs summed over the buckets 0 .. k
PrefixOld(k) == PrefixSum([b \in BucketIdx(Self) |-> bucket_stats[b].old_unconfirmed_txs], k)

\* C33: the transactions that stay unconfirmed past the window, counted in
\* old_unconfirmed_txs, inflate the denominator of the confirmation rate of
\* estimate: for a prefix [0, k] whose old_unconfirmed_txs count the aged-out
\* transactions tracked in it, the denominator txs_count + failed + extra that
\* estimate_median divides by is at least txs_count + failed + that count.
C33_OldUnconfirmedInDenominator ==
    ~panicked =>
      \A confirm_target \in 1 .. MAX_CONFIRM_BLOCKS : \A k \in BucketIdx(Self) :
        (/\ \A b \in 0 .. k : bucket_stats[b].old_unconfirmed_txs >= 0
         /\ PrefixOld(k) = Cardinality(AgedOutIn(k))
         /\ PrefixExtra(k, confirm_target) >= 0) =>
            PrefixTxs(k) + PrefixFailed(k, confirm_target)
                + PrefixExtra(k, confirm_target) * F64_ONE
              >= PrefixTxs(k) + PrefixFailed(k, confirm_target) + PrefixOld(k) * F64_ONE

\* C34: first_record_height is 0 until the first process_block above the tip
\* that lists a tracked transaction, that call sets it to the block's height,
\* and it never changes afterwards; a process_block that resolves no tracked
\* transaction, and every other call, leaves it at 0.
C34_FirstRecordHeightSetOnce ==
    /\ first_record_height = 0
    /\ [][/\ first_record_height # 0 => first_record_height' = first_record_height
          /\ (first_record_height = 0 /\ ~panicked') =>
                first_record_height' =
                    IF /\ last'.op = "process_block"
                       /\ last'.height > best_height
                       /\ \E i \in DOMAIN last'.txs : last'.txs[i].hash \in DOMAIN tracked_txs
                    THEN last'.height
                    ELSE 0]_vars

\* a block has just resolved a transaction, after an earlier block set
\* first_record_height
C34_Witness ==
    /\ last.op = "process_block"
    /\ last.height = best_height
    /\ \E i \in DOMAIN last.txs :
          last.txs[i].height < last.height /\ last.txs[i].hash \notin DOMAIN tracked_txs
    /\ first_record_height >= 1
    /\ first_record_height < best_height

\* the entries of a block whose hash the engine tracks
TrackedOf(txs) ==
    LET IsTracked(tx) == tx.hash \in DOMAIN tracked_txs IN SelectSeq(txs, IsTracked)

\* C35: a transaction listed in process_block that is not tracked is skipped:
\* the block has the effect of the block without it (no sample, no txs_count,
\* no total_feerate, no unconfirmed counter, no first_record_height), and a
\* block above the tip that lists only untracked transactions, whatever their
\* entries, does the window roll and the decay and nothing else.
C35_UntrackedSkipped ==
    ~panicked =>
      \A height \in Heights :
        /\ \A txs \in AnyBlocks(height) :
              process_block(Self, height, txs) = process_block(Self, height, TrackedOf(txs))
        /\ \A tx \in AllTxEntries :
              (tx.hash \notin DOMAIN tracked_txs /\ height > best_height) =>
                 /\ process_block_tx(Self, height, tx) = [self |-> Self, ret |-> FALSE]
                 /\ process_block(Self, height, <<tx>>)
                      = decay(move_track_window([Self EXCEPT !.best_height = height], height))
                 /\ process_block(Self, height, <<tx, tx>>)
                      = process_block(Self, height, <<>>)

\* a block that lists untracked transactions only has just rolled the window
\* over a tracked transaction, with samples to decay and no first record yet
\* to set
C35_Witness ==
    /\ last.op = "process_block"
    /\ last.height = best_height
    /\ last.txs # <<>>
    /\ \A i \in DOMAIN last.txs : last.txs[i].height = last.height
    /\ tracked_txs # <<>>
    /\ \E b \in BucketIdx(Self) : bucket_stats[b].old_unconfirmed_txs > 0
    /\ first_record_height = 0

\* C36: bucket_index_by_feerate(rate) is the index of the smallest bucket
\* whose boundary is >= rate: a rate equal to a boundary has that boundary's
\* bucket, a rate below the first boundary has bucket 0, and the result is
\* none exactly when rate is above every boundary.
C36_BucketRoundsUp ==
    \A rate \in Rates :
      \E index \in {bucket_index_by_feerate(Self, rate)} :
        /\ index = None <=> \A k \in DOMAIN feerate_to_bucket : feerate_to_bucket[k] < rate
        /\ index # None =>
              /\ index \in BucketIdx(Self)
              /\ feerate_to_bucket[index + 1] >= rate
              /\ \A j \in BucketIdx(Self) : j < index => feerate_to_bucket[j + 1] < rate
        /\ \A k \in DOMAIN feerate_to_bucket : rate = feerate_to_bucket[k] => index = k - 1
        /\ rate < feerate_to_bucket[1] => index = 0

\* track_tx has just filed a feerate equal to the second boundary in bucket 1,
\* next to a tracked transaction of bucket 0
C36_Witness ==
    /\ last.op = "track_tx"
    /\ last.tx.hash \in DOMAIN tracked_txs
    /\ feerate(last.tx) = feerate_to_bucket[2]
    /\ tracked_txs[last.tx.hash].bucket_index = 1
    /\ \E h \in DOMAIN tracked_txs : tracked_txs[h].bucket_index = 0

\* the counter that remove_unconfirmed_tx decrements for each tracked
\* transaction of self, at the tip of self, holds at least 1
DecrementsFindOne(self) ==
    \A h \in DOMAIN self.tracked_txs :
        LET tx_age == saturating_sub(self.best_height, self.tracked_txs[h].height)
            bucket_index == self.tracked_txs[h].bucket_index
            block_index == self.tracked_txs[h].height % MAX_CONFIRM_BLOCKS
        IN tx_age >= 1 =>
              IF tx_age >= MAX_CONFIRM_BLOCKS
              THEN self.bucket_stats[bucket_index].old_unconfirmed_txs >= 1
              ELSE self.block_unconfirmed_txs[block_index][bucket_index] >= 1

\* C37: no unconfirmed counter is decremented at 0: after any track_tx,
\* drop_tx and process_block calls with strictly increasing heights (gaps and
\* any first height included), the decrement of block_unconfirmed_txs[slot]
\* [bucket] or old_unconfirmed_txs[bucket] that remove_unconfirmed_tx makes
\* for a tracked transaction finds the counter >= 1, in drop_tx at the tip
\* and in a process_block above it after its window roll.
C37_NoDecrementAtZero ==
    ~panicked =>
      /\ DecrementsFindOne(Self)
      /\ \A height \in Heights :
            height > best_height =>
               DecrementsFindOne(
                   decay(move_track_window([Self EXCEPT !.best_height = height], height)))

\* C38: in every reachable state, for every target t and bucket b,
\* confirmed[t][b] <= txs_count[b], so the rate confirmed / (txs_count +
\* failed + extra) that estimate_median computes over a prefix is at most 1.
C38_ConfirmedAtMostTxsCount ==
    ~panicked =>
      /\ \A t \in RowIdx : \A b \in BucketIdx(Self) :
            /\ confirm_target_to_confirmed_txs[t][b] >= 0
            /\ confirm_target_to_confirmed_txs[t][b] <= bucket_stats[b].txs_count
      /\ \A confirm_target \in 1 .. MAX_CONFIRM_BLOCKS : \A k \in BucketIdx(Self) :
            /\ PrefixConfirmed(k, confirm_target) <= PrefixTxs(k)
            /\ PrefixExtra(k, confirm_target) >= 0 =>
                  PrefixConfirmed(k, confirm_target)
                    <= PrefixTxs(k) + PrefixFailed(k, confirm_target)
                         + PrefixExtra(k, confirm_target) * F64_ONE

\* a bucket holds a decayed sample confirmed after 1 block and a sample
\* confirmed after 2: row 0 counts less than row 1, which counts txs_count
C38_Witness ==
    /\ last.op = "process_block"
    /\ \E b \in BucketIdx(Self) :
          /\ bucket_stats[b].txs_count % F64_ONE # 0
          /\ confirm_target_to_confirmed_txs[0][b] > 0
          /\ confirm_target_to_confirmed_txs[0][b] < confirm_target_to_confirmed_txs[1][b]
          /\ confirm_target_to_confirmed_txs[1][b] = bucket_stats[b].txs_count

\* C39: a transaction resolved by process_block(height, txs) is recorded in
\* the bucket stored for it at track_tx time, with blocks_to_confirm = height
\* - the entry height stored at track_tx time, whatever height and fee the
\* entry handed to process_block carries: the block has the effect of the
\* block listing the entry handed to track_tx, and the bucket stored for the
\* transaction gains a sample (blocks_to_confirm >= 1).
C39_SampleFromTrackedRecord ==
    ~panicked =>
      \A height \in Heights : \A tx \in AllTxEntries :
        (height > best_height /\ tx.hash \in DOMAIN tracked_txs) =>
          \E r \in {process_block(Self, height, <<tx>>)} :
            \E decayed \in {decay(move_track_window([Self EXCEPT !.best_height = height],
                                                    height))} :
              ~r.panicked =>
                /\ r = process_block(Self, height, <<PoolEntry(tx.hash, height)>>)
                /\ r.bucket_stats[tracked_txs[tx.hash].bucket_index].txs_count
                     = decayed.bucket_stats[tracked_txs[tx.hash].bucket_index].txs_count
                         + F64_ONE
                /\ \A t \in RowIdx :
                      t >= height - tracked_txs[tx.hash].height - 1 =>
                        r.confirm_target_to_confirmed_txs[t][tracked_txs[tx.hash].bucket_index]
                          = decayed.confirm_target_to_confirmed_txs[t]
                                [tracked_txs[tx.hash].bucket_index] + F64_ONE

====
